---- MODULE Spec2Model ----
(***************************************************************************)
(* Email capture and retrieval subsystem of the demo apps:                 *)
(*   mail_sink/server.py  - the SMTP capture sink (SinkHandler)            *)
(*   mcp_server/utils.py  - send_email_smtp, list_emails_fs, get_email_fs  *)
(*                                                                         *)
(* The store is one directory holding <id>.eml and <id>.json.  The sink    *)
(* is one event loop, so one handle_message is in progress at a time; the  *)
(* caller of utils.py is one synchronous client.  File operations of the   *)
(* sink and of the client interleave freely.                               *)
(*                                                                         *)
(* Text is a sequence of one-character strings, bytes are small integers.  *)
(* The raw bytes of a message are represented by the MIME tree they        *)
(* serialise, listed in walk() order (the root part first).                *)
(***************************************************************************)
EXTENDS Integers, Sequences, FiniteSets, TLC

VARIABLES emlFile, jsonFile, sink, clock, cl, wire, reply, committed, failed, mids

vars == <<emlFile, jsonFile, sink, clock, cl, wire, reply, committed, failed, mids>>

\* ---------------------------------------------------------------- bounds
MaxMsgs == 2
MaxClock == 2
MaxSends == 1

Ids == 1..MaxMsgs

\* ------------------------------------------------------- basic operators
Max(a, b) == IF a >= b THEN a ELSE b
Min(a, b) == IF a <= b THEN a ELSE b

\* Python's None for a text value, and the truth value of a text value.
None == <<"None">>
Truthy(s) == s # None /\ s # <<>>

\* s[:n] of Python for n >= 0
Take(s, n) == SubSeq(s, 1, Min(n, Len(s)))

\* sep.join(items)
RECURSIVE Join(_, _)
Join(sep, items) ==
    IF items = <<>> THEN <<>>
    ELSE IF Len(items) = 1 THEN items[1]
    ELSE items[1] \o sep \o Join(sep, Tail(items))

\* needle in hay (Python substring test)
Contains(hay, needle) ==
    \E i \in 0..(Len(hay) - Len(needle)) :
        SubSeq(hay, i + 1, i + Len(needle)) = needle

\* str.lower() on the characters of the model's alphabet
LowerChar(c) ==
    CASE c = "H" -> "h"
      [] c = "A" -> "a"
      [] c = "B" -> "b"
      [] c = "N" -> "n"
      [] c = "T" -> "t"
      [] c = "X" -> "x"
      [] OTHER -> c
Lower(s) == [i \in 1..Len(s) |-> LowerChar(s[i])]

\* bytes.decode(charset, errors="replace"): byte 255 is not valid UTF-8
ByteToChar(b) ==
    CASE b = 72 -> "H"
      [] b = 105 -> "i"
      [] b = 123 -> "{"
      [] b = 125 -> "}"
      [] OTHER -> "?"
KnownCharsets == {"utf-8", "ascii"}
DecodeBytes(bytes) == [i \in 1..Len(bytes) |-> ByteToChar(bytes[i])]

\* A long run of equal bytes is written as one element: b + 256 * k stands
\* for k + 1 copies of the byte b, so a plain byte stands for itself.
Run(b, n) == b + 256 * (n - 1)
RunByte(e) == e % 256
RunLen(e) == (e \div 256) + 1

\* len(bytes)
RECURSIVE ByteLen(_)
ByteLen(bytes) ==
    IF bytes = <<>> THEN 0 ELSE RunLen(Head(bytes)) + ByteLen(Tail(bytes))

\* bytes[:n]
RECURSIVE TakeBytes(_, _)
TakeBytes(bytes, n) ==
    IF bytes = <<>> \/ n <= 0 THEN <<>>
    ELSE IF RunLen(Head(bytes)) <= n
         THEN <<Head(bytes)>> \o TakeBytes(Tail(bytes), n - RunLen(Head(bytes)))
         ELSE << Run(RunByte(Head(bytes)), n) >>

\* bytes.decode(charset, errors="replace") of a byte string with runs: the
\* text is written run by run, [c, n] standing for n copies of character c
DecodeRuns(bytes) ==
    [i \in 1..Len(bytes) |->
        [c |-> ByteToChar(RunByte(bytes[i])), n |-> RunLen(bytes[i])]]

\* ------------------------------------------------------ text utilities
\* str.strip() for the blank character
RECURSIVE LStrip(_)
LStrip(s) == IF s # <<>> /\ Head(s) = " " THEN LStrip(Tail(s)) ELSE s
RECURSIVE RStrip(_)
RStrip(s) ==
    IF s # <<>> /\ s[Len(s)] = " " THEN RStrip(SubSeq(s, 1, Len(s) - 1)) ELSE s
Strip(s) == RStrip(LStrip(s))

\* str.split(sep) for a one-character separator: a sequence of texts
RECURSIVE SplitOn(_, _, _)
SplitOn(s, sep, cur) ==
    IF s = <<>> THEN <<cur>>
    ELSE IF Head(s) = sep THEN <<cur>> \o SplitOn(Tail(s), sep, <<>>)
    ELSE SplitOn(Tail(s), sep, Append(cur, Head(s)))
Split(s, sep) == SplitOn(s, sep, <<>>)

RECURSIVE SelectTruthy(_)
SelectTruthy(items) ==
    IF items = <<>> THEN <<>>
    ELSE IF Head(items) # <<>> THEN <<Head(items)>> \o SelectTruthy(Tail(items))
    ELSE SelectTruthy(Tail(items))

\* ------------------------------------------------------------ messages
HdrNames ==
    {"Subject", "From", "To", "Cc", "Bcc", "Date", "Message-ID",
     "In-Reply-To", "References"}

\* A header map gives, per name, the values get_all() returns (the text the
\* policy.default parser yields); get() is the first of them or None.
NoHdrs == [n \in HdrNames |-> <<>>]
get_all(msg, name) == msg.hdr[name]
get(msg, name) == IF msg.hdr[name] = <<>> THEN None ELSE msg.hdr[name][1]

\* A header value on which the policy.default header parser raises when the
\* header is accessed (observed with "From: <" on CPython 3.11: IndexError).
Malformed == <<"<">>
HeaderAccessRaises(msg) ==
    \E n \in HdrNames : \E i \in 1..Len(msg.hdr[n]) : msg.hdr[n][i] = Malformed

\* One MIME part: content type, disposition ("" when absent), filename
\* (None when absent), charset parameter ("" when absent), and the bytes
\* get_payload(decode=True) returns (empty for a multipart container).
Part(ct, disp, fname, cs, payload) ==
    [ctype |-> ct, disp |-> disp, filename |-> fname, charset |-> cs,
     payload |-> payload]

is_multipart(msg) == msg.parts[1].ctype \in {"multipart/mixed", "multipart/alternative"}
walk(msg) == msg.parts

FileJson == <<"a", ".", "j", "s", "o", "n">>
FileBin == <<"n", ".", "b", "i", "n">>

\* A single-part text message with plain headers.
MsgPlain ==
    [hdr |-> [NoHdrs EXCEPT !["Subject"] = << <<"H", "i">> >>,
                            !["From"] = << <<"A">> >>,
                            !["To"] = << <<"a", ",", " ", "b">> >>,
                            !["Date"] = << <<"d">> >>],
     parts |-> << Part("text/plain", "", None, "utf-8", <<72, 105>>) >>]

\* A multipart message: the subject looks like an encoded word of an unknown
\* charset, the plain body names an unknown charset, one part is an
\* attachment by disposition and one is an inline part with a filename.
MsgMixed ==
    [hdr |-> [NoHdrs EXCEPT !["Subject"] = << <<"=", "?", "z", "?", "H", "?", "=">> >>,
                            !["From"] = << <<"=", "?", "u", "?", "B", "?", "=">> >>,
                            !["To"] = << <<"b">> >>],
     parts |-> << Part("multipart/mixed", "", None, "", <<>>),
                  Part("text/plain", "", None, "x-unknown", <<72>>),
                  Part("application/json", "attachment", FileJson, "", <<123, 125>>),
                  Part("application/octet-stream", "inline", FileBin, "", <<255>>) >>]

\* A message whose From header makes the header parser raise.
MsgBadFrom ==
    [hdr |-> [NoHdrs EXCEPT !["Subject"] = << <<"H", "i">> >>,
                            !["From"] = << Malformed >>,
                            !["To"] = << <<"a">> >>],
     parts |-> << Part("text/plain", "", None, "", <<105>>) >>]

\* A well-formed message whose only recipient has a quoted display name
\* with a comma in it:  To: "a,b"
MsgQuoted ==
    [hdr |-> [NoHdrs EXCEPT !["Subject"] = << <<"H", "i">> >>,
                            !["From"] = << <<"A">> >>,
                            !["To"] = << <<"\"", "a", ",", "b", "\"">> >>],
     parts |-> << Part("text/plain", "", None, "", <<105>>) >>]

\* A multipart message with two plain parts, the first of an unknown
\* charset, and one HTML part.
MsgTwoPlain ==
    [hdr |-> [NoHdrs EXCEPT !["Subject"] = << <<"H", "i">> >>,
                            !["From"] = << <<"A">> >>,
                            !["To"] = << <<"b">> >>],
     parts |-> << Part("multipart/mixed", "", None, "", <<>>),
                  Part("text/plain", "", None, "x-unknown", <<72>>),
                  Part("text/plain", "", None, "utf-8", <<105>>),
                  Part("text/html", "", None, "utf-8", <<72, 105>>) >>]

\* A multipart/alternative message: a plain part sent as an attachment, the
\* plain and the HTML body, and a later part of each type.
MsgAlt ==
    [hdr |-> [NoHdrs EXCEPT !["Subject"] = << <<"H", "i">> >>,
                            !["From"] = << <<"A">> >>,
                            !["To"] = << <<"b">> >>],
     parts |-> << Part("multipart/alternative", "", None, "", <<>>),
                  Part("text/plain", "attachment", None, "utf-8", <<72>>),
                  Part("text/plain", "", None, "utf-8", <<105>>),
                  Part("text/html", "", None, "utf-8", <<72>>),
                  Part("text/plain", "", None, "utf-8", <<72, 105>>),
                  Part("text/html", "", None, "utf-8", <<105>>) >>]

\* A message with three attachments: one without a filename, one whose
\* type is not textual but whose name ends in .TXT, and a plain text file of
\* 524289 bytes that names an unknown charset.
FileUpperTxt == <<"N", ".", "T", "X", "T">>
FileNoExt == <<"r">>
MsgBlob ==
    [hdr |-> [NoHdrs EXCEPT !["Subject"] = << <<"H", "i">> >>,
                            !["From"] = << <<"A">> >>,
                            !["To"] = << <<"b">> >>],
     parts |-> << Part("multipart/mixed", "", None, "", <<>>),
                  Part("text/plain", "", None, "utf-8", <<105>>),
                  Part("application/octet-stream", "attachment", None, "", <<255, 72>>),
                  Part("application/octet-stream", "attachment", FileUpperTxt, "", <<72>>),
                  Part("text/plain", "attachment", FileNoExt, "x-unknown",
                       << Run(72, 524289) >>) >>]

\* What other SMTP clients send to the sink.
ExternalMessages == {MsgPlain, MsgMixed, MsgBadFrom}

\* ------------------------------------------------ the decoder (server.py)
\* An RFC2047 encoded word is modelled as  = ? <charset> ? <text> ? =  with
\* "u" the one charset the codec registry knows.
IsEncodedWord(v) ==
    /\ Len(v) >= 6
    /\ v[1] = "=" /\ v[2] = "?" /\ v[4] = "?"
    /\ v[Len(v) - 1] = "?" /\ v[Len(v)] = "="
EncodedText(v) == SubSeq(v, 5, Len(v) - 2)
make_header_raises(v) == IsEncodedWord(v) /\ v[3] # "u"
make_header(v) == IF IsEncodedWord(v) THEN EncodedText(v) ELSE v

\* A plausible slip: the failed header is dropped instead of kept raw.
_decode_hdr_drops(value) ==
    IF ~Truthy(value) THEN value
    ELSE IF make_header_raises(value) THEN None
    ELSE make_header(value)

_decode_hdr(value) ==
    IF ~Truthy(value) THEN value
    ELSE IF make_header_raises(value) THEN value
    ELSE make_header(value)

StripAll(items) == [i \in 1..Len(items) |-> Strip(items[i])]

RECURSIVE HeadersListOf(_)
HeadersListOf(decoded) ==
    IF decoded = <<>> THEN <<>>
    ELSE LET v == Head(decoded)
             parts == SelectTruthy(StripAll(Split(v, ",")))
         IN  IF ~Truthy(v) THEN HeadersListOf(Tail(decoded))
             ELSE (IF parts # <<>> THEN parts ELSE <<v>>) \o HeadersListOf(Tail(decoded))

_headers_list(msg, name) ==
    LET vals == get_all(msg, name)
    IN  HeadersListOf([i \in 1..Len(vals) |-> _decode_hdr(vals[i])])

\* bytes.decode(charset, errors="replace"): LookupError on an unknown charset
TryDecode(payload, cs) ==
    IF cs \in KnownCharsets THEN [ok |-> TRUE, val |-> DecodeBytes(payload)]
    ELSE [ok |-> FALSE, val |-> None]
get_content(part) ==
    TryDecode(part.payload, IF part.charset = "" THEN "ascii" ELSE part.charset)
PayloadDecode(part) ==
    TryDecode(part.payload, IF part.charset = "" THEN "utf-8" ELSE part.charset)
\* try get_content(); except: try the payload decode; except: keep `old`
BodyOf(part, old) ==
    IF get_content(part).ok THEN get_content(part).val
    ELSE IF PayloadDecode(part).ok THEN PayloadDecode(part).val
    ELSE old

RECURSIVE WalkBodies(_, _, _)
WalkBodies(parts, text, html) ==
    IF parts = <<>> \/ (text # None /\ html # None) THEN <<text, html>>
    ELSE LET part == Head(parts)
         IN  IF part.disp = "attachment" THEN WalkBodies(Tail(parts), text, html)
             ELSE IF part.ctype = "text/plain" /\ text = None
                  THEN WalkBodies(Tail(parts), BodyOf(part, text), html)
             ELSE IF part.ctype = "text/html" /\ html = None
                  THEN WalkBodies(Tail(parts), text, BodyOf(part, html))
             ELSE WalkBodies(Tail(parts), text, html)

_best_effort_bodies(msg) ==
    IF is_multipart(msg) THEN WalkBodies(walk(msg), None, None)
    ELSE LET part == msg.parts[1]
             payload == BodyOf(part, None)
         IN  IF part.ctype = "text/plain" THEN <<payload, None>>
             ELSE IF part.ctype = "text/html" THEN <<None, payload>>
             ELSE <<None, None>>

\* A plausible slip: only the disposition is looked at.
IsAttachment_by_disposition(part) == part.disp = "attachment"

IsAttachment(part) == part.disp = "attachment" \/ Truthy(part.filename)
FilenameOrEmpty(part) == IF Truthy(part.filename) THEN part.filename ELSE <<>>

RECURSIVE _attachment_metadata_of(_)
_attachment_metadata_of(parts) ==
    IF parts = <<>> THEN <<>>
    ELSE LET part == Head(parts)
         IN  (IF IsAttachment(part)
              THEN << [filename |-> FilenameOrEmpty(part),
                       content_type |-> part.ctype,
                       size_bytes |-> ByteLen(part.payload)] >>
              ELSE <<>>) \o _attachment_metadata_of(Tail(parts))
_attachment_metadata(msg) == _attachment_metadata_of(walk(msg))

\* ------------------------------------------------------ the record store
\* A file is absent, partial (created by open() but not yet fully written)
\* or complete.  Raw bytes are the serialised message; a metadata file is
\* the JSON text of one record.
Absent == [kind |-> "absent"]
Partial == [kind |-> "partial"]
as_bytes(msg) == [kind |-> "file", wire |-> msg]
parsebytes(file) == file.wire
dumps(rec) == [kind |-> "file", json |-> rec]
exists(file) == file.kind # "absent"

\* Python's None where a dict is expected
NoneRec == [none |-> TRUE]

\* A plausible slip: the raw write is lost.
write_bytes_lost(files, id, content) == files

write_bytes(files, id, content) == [files EXCEPT ![id] = content]

write_text(files, id, content) == [files EXCEPT ![id] = content]

\* datetime.isoformat() and the path of <uid>.eml in the mail directory
isoformat(t) == [iso |-> t]
eml_path(uid) == [dir |-> "mcp_mail", stem |-> uid, suffix |-> ".eml"]

\* A plausible slip: the identifier is not checked to be new.
NewUid_any == Ids

\* uuid.uuid4(): an identifier no artifact carries yet
NewUid == {id \in Ids : ~exists(emlFile[id]) /\ ~exists(jsonFile[id])}

\* ----------------------------------------- SinkHandler.handle_message
NoMsg == [hdr |-> NoHdrs, parts |-> <<>>]
SinkIdle == [pc |-> "idle", uid |-> 0, raw |-> as_bytes(NoMsg), rec |-> NoneRec, src |-> "none"]

NoWire == [kind |-> "none"]
\* the DATA content of one SMTP transaction and its RCPT TO addresses
OnWire(msg, to_addrs) == [kind |-> "msg", msg |-> msg, rcpt_tos |-> to_addrs]

\* lines 165-184: the record built from the re-parsed message
record(uid, now, parsed) ==
    [id |-> uid,
     stored_at |-> isoformat(now),
     subject |-> _decode_hdr(get(parsed, "Subject")),
     from |-> _decode_hdr(get(parsed, "From")),
     to |-> _headers_list(parsed, "To"),
     cc |-> _headers_list(parsed, "Cc"),
     bcc |-> _headers_list(parsed, "Bcc"),
     date |-> _decode_hdr(get(parsed, "Date")),
     message_id |-> get(parsed, "Message-ID"),
     in_reply_to |-> _decode_hdr(get(parsed, "In-Reply-To")),
     references |-> _decode_hdr(get(parsed, "References")),
     text |-> _best_effort_bodies(parsed)[1],
     html |-> _best_effort_bodies(parsed)[2],
     attachments |-> _attachment_metadata(parsed),
     raw_path |-> eml_path(uid)]

\* The exception leaves handle_message: nothing is cleaned up, and a client
\* of the send helper waiting for the DATA reply gets an error reply.
Abort ==
    /\ sink' = SinkIdle
    /\ failed' = failed \cup {sink.uid}
    /\ reply' = IF sink.src = "helper" THEN "error" ELSE reply

\* A plausible slip: handle_message yields to the event loop (an await
\* between its steps), so the handler of another session can start.
SinkWriteRaw_reentrant(msg, src) ==
    /\ \E uid \in NewUid :
          /\ emlFile' = write_bytes(emlFile, uid, as_bytes(msg))
          /\ sink' = [pc |-> "rawWritten", uid |-> uid, raw |-> as_bytes(msg),
                      rec |-> NoneRec, src |-> src]
    /\ UNCHANGED <<jsonFile, clock, cl, reply, committed, failed, mids>>

\* lines 156-163: serialise, pick the id, write <uid>.eml.  handle_message
\* has no await, so the event loop starts it only when no other
\* handle_message is in progress.
SinkWriteRaw(msg, src) ==
    /\ sink.pc = "idle"
    /\ \E uid \in NewUid :
          /\ emlFile' = write_bytes(emlFile, uid, as_bytes(msg))
          /\ sink' = [pc |-> "rawWritten", uid |-> uid, raw |-> as_bytes(msg),
                      rec |-> NoneRec, src |-> src]
    /\ UNCHANGED <<jsonFile, clock, cl, reply, committed, failed, mids>>

\* a message of some other SMTP client
SinkReceiveExternal ==
    /\ wire = NoWire
    /\ \E msg \in ExternalMessages : SinkWriteRaw(msg, "external")
    /\ UNCHANGED wire

\* a well-formed message of some other SMTP client
WellFormedMessages == {MsgPlain, MsgQuoted, MsgMixed}
SinkReceiveWellFormed ==
    /\ wire = NoWire
    /\ \E msg \in WellFormedMessages : SinkWriteRaw(msg, "external")
    /\ UNCHANGED wire

\* a multipart message of some other SMTP client
BodyMessages == {MsgTwoPlain, MsgAlt, MsgMixed}
SinkReceiveMultipart ==
    /\ wire = NoWire
    /\ \E msg \in BodyMessages : SinkWriteRaw(msg, "external")
    /\ UNCHANGED wire

\* a message with attachments of some other SMTP client
AttMessages == {MsgMixed, MsgBlob}
SinkReceiveAttachments ==
    /\ wire = NoWire
    /\ \E msg \in AttMessages : SinkWriteRaw(msg, "external")
    /\ UNCHANGED wire

\* the message the send helper has transmitted
SinkReceiveSent ==
    /\ wire # NoWire
    /\ SinkWriteRaw(wire.msg, "helper")
    /\ wire' = NoWire

\* lines 165-184: decode and build the record; the clock is read at line 170
SinkDecode ==
    /\ sink.pc = "rawWritten"
    /\ LET parsed == parsebytes(sink.raw)
       IN  IF HeaderAccessRaises(parsed)
           THEN Abort /\ UNCHANGED clock
           ELSE \E now \in clock..Min(clock + 1, MaxClock) :
                   /\ clock' = now
                   /\ sink' = [sink EXCEPT !.pc = "decoded",
                                           !.rec = record(sink.uid, now, parsed)]
                   /\ UNCHANGED <<failed, reply>>
    /\ UNCHANGED <<emlFile, jsonFile, cl, wire, committed, mids>>

\* line 186, first half: open() creates <uid>.json
SinkOpenJson ==
    /\ sink.pc = "decoded"
    /\ jsonFile' = write_text(jsonFile, sink.uid, Partial)
    /\ sink' = [sink EXCEPT !.pc = "jsonOpen"]
    /\ UNCHANGED <<emlFile, clock, cl, wire, reply, committed, failed, mids>>

\* line 186, second half: the JSON text is written and the file closed
SinkWriteJson ==
    /\ sink.pc = "jsonOpen"
    /\ jsonFile' = write_text(jsonFile, sink.uid, dumps(sink.rec))
    /\ committed' = Append(committed, sink.uid)
    /\ reply' = IF sink.src = "helper" THEN "ok" ELSE reply
    /\ sink' = SinkIdle
    /\ UNCHANGED <<emlFile, clock, cl, wire, failed, mids>>

\* line 186 raising OSError, before or after the file was created
SinkWriteFails ==
    /\ sink.pc \in {"decoded", "jsonOpen"}
    /\ Abort
    /\ UNCHANGED <<emlFile, jsonFile, clock, cl, wire, committed, mids>>

\* ------------------------------------------- the client of utils.py
\* One synchronous caller: pc names the call in progress and the step it is
\* at, arg its arguments, tmp its locals, result what the last call
\* returned (or raised), net whether that call opened an SMTP connection.
NoArg == [none |-> TRUE]
ClientInit ==
    [pc |-> "ready", arg |-> NoArg, tmp |-> NoneRec, result |-> NoneRec, net |-> FALSE]
CanCall == cl.pc = "ready"
Calls(pc, arg, tmp) ==
    cl' = [pc |-> pc, arg |-> arg, tmp |-> tmp, result |-> NoneRec, net |-> FALSE]
Returns(result) == cl' = [cl EXCEPT !.pc = "ready", !.tmp = NoneRec, !.result = result]
\* the call ended with an exception instead of a return value
Raised(exc) == [raised |-> exc]

\* ------------------------------------------------------ _safe_load
\* A plausible slip: a readable file is reported unreadable.
_safe_load_none(file) == NoneRec

\* json.loads(path.read_text()): None when the file is missing or its text
\* is not (yet) a JSON document
_safe_load(file) == IF file.kind = "file" THEN file.json ELSE NoneRec

\* --------------------------------------------------- get_email_fs
ErrorResult(code) == [error |-> [code |-> code]]

_ALLOWED_CT ==
    {"text/plain", "text/csv", "application/json", "application/yaml",
     "text/yaml", "application/x-yaml"}
_ALLOWED_EXT ==
    { <<".", "t", "x", "t">>, <<".", "c", "s", "v">>, <<".", "j", "s", "o", "n">>,
      <<".", "y", "a", "m", "l">>, <<".", "y", "m", "l">> }
\* A plausible slip: the bound written in decimal kilobytes.
_MAX_TEXT_BYTES_decimal == 512 * 1000

_MAX_TEXT_BYTES == 512 * 1024

\* Path(name).suffix: from the last dot, unless it leads or ends the name
LastDot(name) ==
    LET dots == {i \in 1..Len(name) : name[i] = "."}
    IN  IF dots = {} THEN 0 ELSE CHOOSE i \in dots : \A j \in dots : j <= i
suffix(name) ==
    IF LastDot(name) <= 1 \/ LastDot(name) = Len(name) THEN <<>>
    ELSE SubSeq(name, LastDot(name), Len(name))

_is_allowed_attachment(part_filename, content_type) ==
    \/ content_type \in _ALLOWED_CT
    \/ Truthy(part_filename) /\ Lower(suffix(part_filename)) \in _ALLOWED_EXT

AttachmentEntry(part) ==
    LET entry == [filename |-> FilenameOrEmpty(part),
                  content_type |-> part.ctype,
                  size_bytes |-> ByteLen(part.payload)]
        preview == TakeBytes(part.payload, _MAX_TEXT_BYTES)
    IN  IF _is_allowed_attachment(part.filename, part.ctype)
        THEN [filename |-> entry.filename, content_type |-> entry.content_type,
              size_bytes |-> entry.size_bytes,
              \* decoded with the part's charset, or as UTF-8 when that raises
              text |-> DecodeRuns(preview)]
        ELSE entry

\* line 208: is_attachment = disp == "attachment" or bool(filename)
is_attachment(part) == part.disp = "attachment" \/ Truthy(part.filename)

RECURSIVE ExtractFrom(_)
ExtractFrom(parts) ==
    IF parts = <<>> THEN <<>>
    ELSE (IF is_attachment(Head(parts)) THEN <<AttachmentEntry(Head(parts))>> ELSE <<>>)
         \o ExtractFrom(Tail(parts))

\* the file at eml_path, re-parsed; [] when it does not exist
_extract_textual_attachments(file) ==
    IF ~exists(file) THEN <<>> ELSE ExtractFrom(walk(parsebytes(file)))

\* bool(Path(...)): pathlib paths define no truth value, so every Path is true
bool_Path(path) == TRUE

\* line 238-240
GetCheck(id) ==
    /\ CanCall
    /\ IF ~exists(jsonFile[id])
       THEN cl' = [ClientInit EXCEPT !.arg = [id |-> id],
                                     !.result = ErrorResult("NOT_FOUND")]
       ELSE Calls("get_load", [id |-> id], NoneRec)
    /\ UNCHANGED <<emlFile, jsonFile, sink, clock, wire, reply, committed, failed, mids>>

\* line 241-243
GetLoad ==
    /\ cl.pc = "get_load"
    /\ LET data == _safe_load(jsonFile[cl.arg.id])
       IN  IF data = NoneRec
           THEN Returns(ErrorResult("READ_ERROR"))
           ELSE cl' = [cl EXCEPT !.pc = "get_extract", !.tmp = data]
    /\ UNCHANGED <<emlFile, jsonFile, sink, clock, wire, reply, committed, failed, mids>>

\* line 245-251
GetExtract ==
    /\ cl.pc = "get_extract"
    /\ LET data == cl.tmp
           path == data.raw_path
           enriched == IF bool_Path(path)
                       THEN _extract_textual_attachments(emlFile[path.stem])
                       ELSE data.attachments
       IN  Returns([data EXCEPT !.attachments = enriched])
    /\ UNCHANGED <<emlFile, jsonFile, sink, clock, wire, reply, committed, failed, mids>>

\* -------------------------------------------------- list_emails_fs
\* sorted(MAIL_DIR.glob("*.json")): the ids with a metadata file, ascending
RECURSIVE SortedIds(_)
SortedIds(S) ==
    IF S = {} THEN <<>>
    ELSE LET m == CHOOSE x \in S : \A y \in S : x <= y
         IN  <<m>> \o SortedIds(S \ {m})

\* datetime.fromisoformat(s).timestamp(), 0.0 when s does not parse
_parse_iso(s) == IF "iso" \in DOMAIN s THEN s.iso ELSE 0

\* list.sort(key=..., reverse=True) is stable: records with equal keys keep
\* the order they were loaded in
RECURSIVE InsertDesc(_, _)
InsertDesc(r, sorted) ==
    IF sorted = <<>> THEN <<r>>
    ELSE IF _parse_iso(Head(sorted).stored_at) >= _parse_iso(r.stored_at)
         THEN <<Head(sorted)>> \o InsertDesc(r, Tail(sorted))
         ELSE <<r>> \o sorted
RECURSIVE SortFrom(_, _)
SortFrom(recs, acc) ==
    IF recs = <<>> THEN acc ELSE SortFrom(Tail(recs), InsertDesc(Head(recs), acc))
\* A plausible slip: the records are left in the order they were loaded.
sort_omitted(recs) == recs

sort_stored_at_desc(recs) == SortFrom(recs, <<>>)

OrEmpty(s) == IF Truthy(s) THEN s ELSE <<>>
Sep == <<" ", "|", " ">>
hay(r) ==
    Join(Sep, << Lower(OrEmpty(r.subject)), Lower(OrEmpty(r.from)),
                 Lower(Join(<<" ">>, r.to)), Lower(OrEmpty(r.text)) >>)

RECURSIVE filter_query(_, _)
filter_query(recs, q) ==
    IF recs = <<>> THEN <<>>
    ELSE (IF Contains(hay(Head(recs)), q) THEN <<Head(recs)>> ELSE <<>>)
         \o filter_query(Tail(recs), q)

\* A plausible slip: the limit is used as given.
slice_limit_raw(limit) == Max(0, limit)

\* recs[: max(1, limit)]
slice_limit(limit) == Max(1, limit)

summary(r) ==
    [id |-> r.id, subject |-> r.subject, from |-> r.from, to |-> r.to, date |-> r.date]

\* lines 140-165 on the loaded records
list_result(recs, query, limit) ==
    LET sorted == sort_stored_at_desc(recs)
        kept == IF Truthy(query) THEN filter_query(sorted, Lower(query)) ELSE sorted
        cut == Take(kept, slice_limit(limit))
    IN  [i \in 1..Len(cut) |-> summary(cut[i])]

\* no query, a word of the subject, and a phrase with the characters " | "
Queries == {None, <<"H", "i">>, <<"i", " ", "|", " ", "A">>}
Limits == (0 - 1)..MaxMsgs

\* line 128: the directory listing
ListGlob(query, limit) ==
    /\ CanCall
    /\ Calls("list_load", [query |-> query, limit |-> limit],
             [pending |-> SortedIds({id \in Ids : exists(jsonFile[id])}),
              recs |-> <<>>])
    /\ UNCHANGED <<emlFile, jsonFile, sink, clock, wire, reply, committed, failed, mids>>

\* lines 129-132, one file
ListLoad ==
    /\ cl.pc = "list_load"
    /\ cl.tmp.pending # <<>>
    /\ LET data == _safe_load(jsonFile[Head(cl.tmp.pending)])
       IN  cl' = [cl EXCEPT !.tmp.pending = Tail(@),
                            !.tmp.recs = IF data = NoneRec THEN @ ELSE Append(@, data)]
    /\ UNCHANGED <<emlFile, jsonFile, sink, clock, wire, reply, committed, failed, mids>>

\* A metadata file whose text is a JSON document but not an object, such as
\* [1]: json.loads returns a list, and list.get does not exist.
JsonArray == [array |-> <<1>>]
has_get(data) == "array" \notin DOMAIN data

\* lines 134-165: r.get(...) at line 140 raises AttributeError on a loaded
\* value that is not a dict, and nothing catches it
ListFinish ==
    /\ cl.pc = "list_load"
    /\ cl.tmp.pending = <<>>
    /\ IF \E i \in 1..Len(cl.tmp.recs) : ~has_get(cl.tmp.recs[i])
       THEN cl' = [ClientInit EXCEPT !.arg = cl.arg, !.result = Raised("AttributeError")]
       ELSE Returns(list_result(cl.tmp.recs, cl.arg.query, cl.arg.limit))
    /\ UNCHANGED <<emlFile, jsonFile, sink, clock, wire, reply, committed, failed, mids>>

\* -------------------------------------------------- send_email_smtp
\* str.encode("utf-8") on the characters of the model's alphabet
CharToByte(c) ==
    CASE c = "H" -> 72
      [] c = "i" -> 105
      [] c = "{" -> 123
      [] c = "}" -> 125
      [] OTHER -> 63
Encode(text) == [i \in 1..Len(text) |-> CharToByte(text[i])]

\* The file system of the caller: a regular file a.json, a regular file
\* b.json one byte longer than _MAX_TEXT_BYTES, and a directory d.
FileBig == <<"b", ".", "j", "s", "o", "n">>
PathEmpty == <<>>
PathMissing == <<"m", ".", "t", "x", "t">>
PathDir == <<"d">>
FileKind(path) ==
    IF path \in {FileJson, FileBig} THEN "file"
    ELSE IF path = PathDir THEN "dir" ELSE "missing"
read_bytes(path) ==
    IF path = FileJson THEN <<123, 125>>
    ELSE IF path = FileBig THEN << Run(123, _MAX_TEXT_BYTES + 1) >>
    ELSE <<>>

\* mimetypes.guess_type(name)[0], "" for None
guess_type(name) ==
    IF Lower(suffix(name)) = <<".", "j", "s", "o", "n">> THEN "application/json"
    ELSE IF Lower(suffix(name)) = <<".", "t", "x", "t">> THEN "text/plain"
    ELSE ""

\* A plausible slip: only existence is tested, not is_file().
is_regular_file_exists_only(path) == FileKind(path) # "missing"

\* fp.exists() and fp.is_file()
is_regular_file(path) == FileKind(path) = "file"

\* A plausible slip: the file's bytes are not put into the part.
AttachmentPart_no_data(path) ==
    Part(IF guess_type(path) # "" THEN guess_type(path) ELSE "application/octet-stream",
         "attachment", path, "", <<>>)

AttachmentPart(path) ==
    Part(IF guess_type(path) # "" THEN guess_type(path) ELSE "application/octet-stream",
         "attachment", path, "", read_bytes(path))

\* lines 33-47: the attachment parts added, or FileNotFoundError raised
RECURSIVE _attach_files(_)
_attach_files(paths) ==
    IF paths = <<>> THEN [raised |-> FALSE, parts |-> <<>>]
    ELSE LET p == Head(paths)
             rest == _attach_files(Tail(paths))
         IN  IF p = <<>> THEN rest
             ELSE IF ~is_regular_file(p) THEN [raised |-> TRUE, parts |-> <<>>]
             ELSE IF rest.raised THEN rest
             ELSE [raised |-> FALSE, parts |-> <<AttachmentPart(p)>> \o rest.parts]

\* make_msgid(): a fresh identifier per call
Digit(n) == CASE n = 1 -> "1" [] n = 2 -> "2" [] n = 3 -> "3" [] OTHER -> "9"
make_msgid(n) == <<"<", Digit(n), ">">>

TextPart(text) == Part("text/plain", "", None, "utf-8", Encode(text))
HtmlPart(html) == Part("text/html", "", None, "utf-8", Encode(html))
Placeholder == <<"H">>

\* lines 65-83: headers and body of the outgoing message
BodyParts(inp) ==
    IF Truthy(inp.text) /\ Truthy(inp.html)
    THEN << Part("multipart/alternative", "", None, "", <<>>),
            TextPart(inp.text), HtmlPart(inp.html) >>
    ELSE IF Truthy(inp.html)
    THEN << Part("multipart/alternative", "", None, "", <<>>),
            TextPart(Placeholder), HtmlPart(inp.html) >>
    ELSE << TextPart(OrEmpty(inp.text)) >>

\* A plausible slip: the blind-copy addresses are written into the message.
SentHdrs_with_bcc(inp, mid) ==
    [NoHdrs EXCEPT !["From"] = << inp.from >>,
                   !["To"] = << Join(<<",", " ">>, inp.to) >>,
                   !["Cc"] = IF inp.cc # <<>> THEN << Join(<<",", " ">>, inp.cc) >> ELSE <<>>,
                   !["Bcc"] = IF inp.bcc # <<>> THEN << Join(<<",", " ">>, inp.bcc) >> ELSE <<>>,
                   !["Subject"] = << inp.subject >>,
                   !["Date"] = << <<"d">> >>,
                   !["Message-ID"] = << mid >>]

SentHdrs(inp, mid) ==
    [NoHdrs EXCEPT !["From"] = << inp.from >>,
                   !["To"] = << Join(<<",", " ">>, inp.to) >>,
                   !["Cc"] = IF inp.cc # <<>> THEN << Join(<<",", " ">>, inp.cc) >> ELSE <<>>,
                   !["Subject"] = << inp.subject >>,
                   !["Date"] = << <<"d">> >>,
                   !["Message-ID"] = << mid >>]

\* add_attachment() turns the message into multipart/mixed
BuiltMessage(inp, mid, attached) ==
    [hdr |-> SentHdrs(inp, mid),
     parts |-> IF attached = <<>> THEN BodyParts(inp)
               ELSE << Part("multipart/mixed", "", None, "", <<>>) >>
                    \o BodyParts(inp) \o attached]

SendResult(success, message_id, error) ==
    [success |-> success, message_id |-> message_id, error |-> error]

AttachmentChoices ==
    { <<>>, <<FileJson>>, <<PathMissing>>, <<FileJson, PathMissing>>,
      <<PathEmpty>>, <<PathDir>> }
\* cc_addrs and bcc_addrs: absent (None or empty) or one address each
CopyChoices ==
    { [cc |-> <<>>, bcc |-> << <<"c">> >>],
      [cc |-> << <<"a">> >>, bcc |-> << <<"c">> >>],
      [cc |-> << <<"a">> >>, bcc |-> <<>>] }
SendInputs ==
    { [from |-> <<"A">>, to |-> << <<"b">> >>, subject |-> <<"H", "i">>,
       text |-> <<"H", "i">>, html |-> None, cc |-> <<>>, bcc |-> << <<"c">> >>,
       paths |-> paths] : paths \in AttachmentChoices }
    \cup
    { [from |-> <<"A">>, to |-> << <<"b">> >>, subject |-> <<"H", "i">>,
       text |-> <<"H", "i">>, html |-> None, cc |-> c.cc, bcc |-> c.bcc,
       paths |-> <<>>] : c \in CopyChoices }

\* lines 65-92: build the message; _attach_files may raise, and nothing
\* catches it
SendBuild(inp) ==
    /\ CanCall
    /\ mids < MaxSends
    /\ mids' = mids + 1
    /\ LET mid == make_msgid(mids + 1)
           att == _attach_files(inp.paths)
       IN  IF att.raised
           THEN cl' = [ClientInit EXCEPT !.arg = inp,
                                         !.result = Raised("FileNotFoundError")]
           ELSE Calls("send_connect", inp,
                      [msg |-> BuiltMessage(inp, mid, att.parts), mid |-> mid,
                       recipients |-> inp.to \o inp.cc \o inp.bcc])
    /\ UNCHANGED <<emlFile, jsonFile, sink, clock, wire, reply, committed, failed>>

\* line 95: smtplib.SMTP(host, port) connects, or raises inside the try
SendConnect ==
    /\ cl.pc = "send_connect"
    /\ \/ cl' = [cl EXCEPT !.pc = "send_data", !.net = TRUE]
       \/ Returns(SendResult(FALSE, None, <<"refused">>))
    /\ UNCHANGED <<emlFile, jsonFile, sink, clock, wire, reply, committed, failed, mids>>

\* line 96: the message goes out; the call then waits for the reply to DATA
SendData ==
    /\ cl.pc = "send_data"
    /\ wire = NoWire
    /\ wire' = OnWire(cl.tmp.msg, cl.tmp.recipients)
    /\ cl' = [cl EXCEPT !.pc = "send_wait"]
    /\ UNCHANGED <<emlFile, jsonFile, sink, clock, reply, committed, failed, mids>>

\* lines 97-99: the sink's reply decides the result
SendReply ==
    /\ cl.pc = "send_wait"
    /\ reply # "none"
    /\ reply' = "none"
    /\ IF reply = "ok"
       THEN Returns(SendResult(TRUE, cl.tmp.mid, None))
       ELSE Returns(SendResult(FALSE, None, <<"rejected">>))
    /\ UNCHANGED <<emlFile, jsonFile, sink, clock, wire, committed, failed, mids>>

\* ------------------------------------------------------ specification
Init ==
    /\ emlFile = [id \in Ids |-> Absent]
    /\ jsonFile = [id \in Ids |-> Absent]
    /\ sink = SinkIdle
    /\ clock = 1
    /\ cl = ClientInit
    /\ wire = NoWire
    /\ reply = "none"
    /\ committed = <<>>
    /\ failed = {}
    /\ mids = 0

\* Deleting a committed raw artifact by hand; no operation of the program
\* does this.
DeleteRaw(id) ==
    /\ jsonFile[id].kind = "file"
    /\ exists(emlFile[id])
    /\ emlFile' = [emlFile EXCEPT ![id] = Absent]
    /\ UNCHANGED <<jsonFile, sink, clock, cl, wire, reply, committed, failed, mids>>

\* Overwriting a committed metadata artifact by hand with a JSON document
\* that is not a record; no operation of the program does this.
CorruptMetadata(id) ==
    /\ jsonFile[id].kind = "file"
    /\ has_get(jsonFile[id].json)
    /\ jsonFile' = [jsonFile EXCEPT ![id] = dumps(JsonArray)]
    /\ UNCHANGED <<emlFile, sink, clock, cl, wire, reply, committed, failed, mids>>

SinkNext ==
    \/ SinkReceiveExternal
    \/ SinkDecode
    \/ SinkOpenJson
    \/ SinkWriteJson
    \/ SinkWriteFails

GetNext ==
    \/ \E id \in Ids : GetCheck(id)
    \/ GetLoad
    \/ GetExtract

ListNext ==
    \/ \E query \in Queries, limit \in Limits : ListGlob(query, limit)
    \/ ListLoad
    \/ ListFinish

SendNext ==
    \/ \E inp \in SendInputs : SendBuild(inp)
    \/ SendConnect
    \/ SendData
    \/ SendReply
    \/ SinkReceiveSent

\* the sink, the readers and the send helper
Next == SinkNext \/ GetNext \/ ListNext \/ SendNext
Spec == Init /\ [][Next]_vars

\* the sink and the two readers
ReadNext == SinkNext \/ GetNext \/ ListNext
SpecRead == Init /\ [][ReadNext]_vars

\* the sink and the send helper
SendingNext == SinkNext \/ SendNext
SpecSend == Init /\ [][SendingNext]_vars

\* the sink, get_email_fs and out-of-band deletion of raw artifacts
OOBNext == SinkNext \/ GetNext \/ (\E id \in Ids : DeleteRaw(id))
SpecOOB == Init /\ [][OOBNext]_vars

\* send_email_smtp with .json attachments, the sink capturing what the
\* helper sends, and get_email_fs
TripInputs ==
    { [from |-> <<"A">>, to |-> << <<"b">> >>, subject |-> <<"H", "i">>,
       text |-> <<"H", "i">>, html |-> None, cc |-> <<>>, bcc |-> <<>>,
       paths |-> paths] :
         paths \in { <<FileJson>>, <<FileBig>>, <<FileJson, FileBig>>, <<>> } }
TripNext ==
    \/ \E inp \in TripInputs : SendBuild(inp)
    \/ SendConnect
    \/ SendData
    \/ SendReply
    \/ SinkReceiveSent
    \/ SinkDecode
    \/ SinkOpenJson
    \/ SinkWriteJson
    \/ SinkWriteFails
    \/ GetNext
SpecTrip == Init /\ [][TripNext]_vars

\* the sink capturing well-formed messages, and get_email_fs
HdrNext ==
    \/ SinkReceiveWellFormed
    \/ SinkDecode
    \/ SinkOpenJson
    \/ SinkWriteJson
    \/ SinkWriteFails
    \/ GetNext
SpecHdr == Init /\ [][HdrNext]_vars

\* the sink capturing multipart messages
BodyNext ==
    \/ SinkReceiveMultipart
    \/ SinkDecode
    \/ SinkOpenJson
    \/ SinkWriteJson
    \/ SinkWriteFails
SpecBody == Init /\ [][BodyNext]_vars

\* the sink capturing messages with attachments, and get_email_fs
AttNext ==
    \/ SinkReceiveAttachments
    \/ SinkDecode
    \/ SinkOpenJson
    \/ SinkWriteJson
    \/ SinkWriteFails
    \/ GetNext
SpecAtt == Init /\ [][AttNext]_vars

\* the sink, list_emails_fs and out-of-band corruption of metadata artifacts
CorruptNext == SinkNext \/ ListNext \/ (\E id \in Ids : CorruptMetadata(id))
SpecCorrupt == Init /\ [][CorruptNext]_vars

\* ------------------------------------------------------------ properties
Range(seq) == {seq[i] : i \in 1..Len(seq)}
HasRaw(id) == exists(emlFile[id])
HasMetadata(id) == exists(jsonFile[id])
IsCommitted(id) == jsonFile[id].kind = "file"
Stored(id) == jsonFile[id].json
RawOf(id) == parsebytes(emlFile[id])
\* the ids handle_message has been given and has written raw bytes for
Handled == failed \cup Range(committed) \cup (IF sink.pc = "idle" THEN {} ELSE {sink.uid})
IsGetCall == "id" \in DOMAIN cl.arg
IsListCall == "limit" \in DOMAIN cl.arg
IsSendCall == "paths" \in DOMAIN cl.arg

\* C1: with no out-of-band deletion, at every point of an interleaving of
\* the sink's steps with the readers' steps, a metadata artifact (even a
\* partly written one) has its raw artifact, and a get_email_fs that has
\* loaded a metadata record finds the raw artifact the record points to.
C1_MetadataHasRaw ==
    /\ \A id \in Ids : HasMetadata(id) => HasRaw(id)
    /\ cl.pc = "get_extract" => HasRaw(cl.tmp.raw_path.stem)

\* a reader has loaded the metadata of one message while the sink is in the
\* middle of capturing another
C1_Witness ==
    /\ cl.pc = "get_extract"
    /\ sink.pc = "rawWritten"
    /\ HasMetadata(cl.arg.id)

\* C2: for every id the raw artifact and the metadata artifact are both
\* persisted or both absent, in every reachable state.
C2_BothOrNeither == \A id \in Ids : HasRaw(id) <=> IsCommitted(id)

\* C3 as claimed: the raw artifact of every handled message is written, and
\* in a committed record every field whose decoding failed is null or empty.
SubjectDecodeFails(id) == make_header_raises(get(RawOf(id), "Subject"))
PlainParts(id) ==
    {i \in 1..Len(RawOf(id).parts) :
        /\ RawOf(id).parts[i].ctype = "text/plain"
        /\ RawOf(id).parts[i].disp # "attachment"}
TextDecodeFails(id) ==
    /\ PlainParts(id) # {}
    /\ \A i \in PlainParts(id) : RawOf(id).parts[i].charset \notin KnownCharsets \cup {""}
GetCheckStep == cl.pc = "ready" /\ cl' # cl /\ "id" \in DOMAIN cl'.arg
GetLoadStep == cl.pc = "get_load" /\ cl'.pc # "get_load"
GetExtractStep == cl.pc = "get_extract" /\ cl'.pc = "ready"
ListFinishStep == cl.pc = "list_load" /\ cl'.pc = "ready"

\* C4: get_email_fs for an id whose metadata exists and whose raw artifact
\* is missing returns the record with the attachment metadata captured at
\* ingestion time.
C4_FallsBackToCaptured ==
    [][(GetExtractStep /\ ~HasRaw(cl.arg.id)) =>
          /\ "attachments" \in DOMAIN cl'.result
          /\ cl'.result.attachments = cl.tmp.attachments]_vars

\* C5: send_email_smtp never raises: every call ends in a SendResult, a
\* failure carries no message id and an error, and only a success carries
\* a message id.
C5_AlwaysSendResult ==
    (IsSendCall /\ cl.pc = "ready") =>
        /\ "success" \in DOMAIN cl.result
        /\ ~cl.result.success => (cl.result.message_id = None /\ cl.result.error # None)
        /\ cl.result.message_id # None => cl.result.success

\* C6 as claimed: if any entry of attachment_paths is not an existing
\* regular file, the call fails, opens no connection and transmits nothing.
C6_AnyBadEntryNoNetwork ==
    (IsSendCall /\ \E i \in 1..Len(cl.arg.paths) : FileKind(cl.arg.paths[i]) # "file") =>
        /\ cl.pc = "ready"
        /\ ~cl.net
        /\ wire = NoWire
        /\ cl.result = Raised("FileNotFoundError")

\* C6 amended: if any non-empty entry of attachment_paths is not an
\* existing regular file, the call fails with the not-found error before
\* any network I/O: no connection is opened and nothing is transmitted.
\* Empty entries are skipped, not checked.
C6_BadEntryNoNetwork ==
    (IsSendCall /\ \E i \in 1..Len(cl.arg.paths) :
                      cl.arg.paths[i] # <<>> /\ FileKind(cl.arg.paths[i]) # "file") =>
        /\ cl.pc = "ready"
        /\ ~cl.net
        /\ wire = NoWire
        /\ cl.result = Raised("FileNotFoundError")

\* a call whose second attachment is missing has ended without a connection
C6_Witness ==
    /\ IsSendCall
    /\ cl.pc = "ready"
    /\ cl.arg.paths = <<FileJson, PathMissing>>
    /\ cl.result = Raised("FileNotFoundError")
    /\ ~cl.net

C8_CommittedImmutable ==
    [][/\ \A id \in Ids : IsCommitted(id) =>
              (jsonFile'[id] = jsonFile[id] /\ emlFile'[id] = emlFile[id])
       /\ (jsonFile' # jsonFile \/ emlFile' # emlFile) => sink' # sink]_vars

\* get has returned an enriched view that differs from the stored
\* attachments, and a second message was committed after the first
C8_Witness ==
    /\ Len(committed) = 2
    /\ cl.pc = "ready"
    /\ IsGetCall
    /\ "attachments" \in DOMAIN cl.result
    /\ IsCommitted(cl.arg.id)
    /\ cl.result.attachments # Stored(cl.arg.id).attachments

\* the records a list call has loaded, and when each was stored
LoadedIds == {cl.tmp.recs[i].id : i \in 1..Len(cl.tmp.recs)}
StoredAt(id) == Stored(id).stored_at.iso
CommitPos(id) == CHOOSE i \in 1..Len(committed) : committed[i] = id
RECURSIVE NewestFirst(_)
NewestFirst(S) ==
    IF S = {} THEN <<>>
    ELSE LET last == CHOOSE x \in S : \A y \in S : CommitPos(y) <= CommitPos(x)
         IN  <<last>> \o NewestFirst(S \ {last})
ResultIds(res) == [i \in 1..Len(res) |-> res[i].id]
ListsAll == ListFinishStep /\ ~Truthy(cl.arg.query) /\ cl.arg.limit >= 1

ListedBefore(a, b) ==
    \/ StoredAt(a) > StoredAt(b)
    \/ StoredAt(a) = StoredAt(b) /\ a < b
UnparsableStamp == [id |-> 0, stored_at |-> [text |-> "garbage"]]
ParsableStamp == [id |-> 1, stored_at |-> isoformat(1)]

SummaryKeys == {"id", "subject", "from", "to", "date"}
MatchingSorted ==
    LET sorted == sort_stored_at_desc(cl.tmp.recs)
    IN  IF Truthy(cl.arg.query) THEN filter_query(sorted, Lower(cl.arg.query)) ELSE sorted
C10_AtMostMaxOneLimit ==
    [][ListFinishStep =>
          LET res == cl'.result
              most == IF cl.arg.limit >= 1 THEN cl.arg.limit ELSE 1
          IN  /\ Len(res) <= most
              /\ Len(res) = Min(most, Len(MatchingSorted))
              /\ \A i \in 1..Len(res) :
                    /\ DOMAIN res[i] = SummaryKeys
                    /\ \A k \in SummaryKeys : res[i][k] = MatchingSorted[i][k]]_vars

\* a listing with a limit below 1 returned one summary of two stored records
C10_Witness ==
    /\ cl.pc = "ready"
    /\ IsListCall
    /\ cl.arg.limit < 1
    /\ Len(cl.result) = 1
    /\ Len(committed) = 2

\* a record matches when one of the searched fields contains the query
FieldMatches(r, q) ==
    \/ Contains(Lower(OrEmpty(r.subject)), q)
    \/ Contains(Lower(OrEmpty(r.from)), q)
    \/ Contains(Lower(Join(<<" ">>, r.to)), q)
    \/ Contains(Lower(OrEmpty(r.text)), q)

\* C11: with a non-empty query list_emails_fs returns, up to the limit, the
\* loaded records of which the subject, the from, the joined to or the text
\* contains the query case-insensitively, and only those; with an empty
\* query it returns all loaded records up to the limit.
C11_OnlyFieldMatches ==
    [][ListFinishStep =>
          LET sorted == sort_stored_at_desc(cl.tmp.recs)
              q == cl.arg.query
              kept == IF Truthy(q)
                      THEN SelectSeq(sorted, LAMBDA r : FieldMatches(r, Lower(q)))
                      ELSE sorted
              cut == Take(kept, Max(1, cl.arg.limit))
          IN  ResultIds(cl'.result) = [i \in 1..Len(cut) |-> cut[i].id]]_vars

\* C12: the envelope recipients of a transmitted message are to + cc + bcc
\* in that order; the message content carries no Bcc header, so the bcc
\* addresses appear in the envelope only, while the cc addresses appear in
\* the envelope and in the Cc header.  The raw artifact the sink writes for
\* that message carries no Bcc header either.
C12_EnvelopeAndNoBcc ==
    /\ wire # NoWire =>
          /\ wire.rcpt_tos = cl.arg.to \o cl.arg.cc \o cl.arg.bcc
          /\ get_all(wire.msg, "Bcc") = <<>>
          /\ get_all(wire.msg, "To") = << Join(<<",", " ">>, cl.arg.to) >>
          /\ get_all(wire.msg, "Cc") =
                 (IF cl.arg.cc = <<>> THEN <<>> ELSE << Join(<<",", " ">>, cl.arg.cc) >>)
    /\ sink.src = "helper" =>
          /\ get_all(parsebytes(sink.raw), "Bcc") = <<>>
          /\ sink.pc \in {"decoded", "jsonOpen"} =>
                 (sink.rec.bcc = <<>> /\ sink.rec.cc = cl.arg.cc)

\* a message with a carbon copy and a blind copy has been captured up to
\* the decoded record
C12_Witness ==
    /\ sink.src = "helper"
    /\ sink.pc = "decoded"
    /\ cl.arg.cc # <<>>
    /\ cl.arg.bcc # <<>>

\* the file names of the attachment parts of a message, and of the entries
\* of an attachment list, in order
AttachedNames(msg) ==
    LET atts == SelectSeq(walk(msg), LAMBDA part : part.disp = "attachment")
    IN  [i \in 1..Len(atts) |-> atts[i].filename]
EntryNames(entries) == [i \in 1..Len(entries) |-> entries[i].filename]
IsJsonName(name) == Lower(suffix(name)) = <<".", "j", "s", "o", "n">>
SendDataStep == cl.pc = "send_data" /\ cl'.pc = "send_wait"
\* the number of characters of a text written run by run
RECURSIVE TextLen(_)
TextLen(text) == IF text = <<>> THEN 0 ELSE Head(text).n + TextLen(Tail(text))

RECURSIVE SplitAddr(_, _, _)
SplitAddr(s, cur, quoted) ==
    IF s = <<>> THEN <<cur>>
    ELSE IF Head(s) = "\"" THEN SplitAddr(Tail(s), Append(cur, Head(s)), ~quoted)
    ELSE IF Head(s) = "," /\ ~quoted THEN <<cur>> \o SplitAddr(Tail(s), <<>>, FALSE)
    ELSE SplitAddr(Tail(s), Append(cur, Head(s)), quoted)
RECURSIVE AddressList(_)
AddressList(vals) ==
    IF vals = <<>> THEN <<>>
    ELSE SelectTruthy(StripAll(SplitAddr(Head(vals), <<>>, FALSE)))
         \o AddressList(Tail(vals))

\* C14: for every committed well-formed message, get_email_fs finds the
\* record (neither NOT_FOUND nor READ_ERROR) and returns the subject and
\* from equal to the decoded Subject and From headers of the message, and
\* to equal to the addresses of its decoded To headers.
C14_HeadersRoundTrip ==
    [][/\ (GetCheckStep /\ IsCommitted(cl'.arg.id)) => cl'.pc = "get_load"
       /\ (GetLoadStep /\ IsCommitted(cl.arg.id)) => cl'.pc = "get_extract"
       /\ GetExtractStep =>
            /\ cl'.result.subject = get(RawOf(cl.arg.id), "Subject")
            /\ cl'.result.from = get(RawOf(cl.arg.id), "From")
            /\ cl'.result.to = AddressList(get_all(RawOf(cl.arg.id), "To"))]_vars

\* the metadata write of message id is in flight
InFlight(id) == sink.pc = "jsonOpen" /\ sink.uid = id
ListLoadStep == cl.pc = "list_load" /\ cl'.pc = "list_load" /\ cl' # cl

\* C15: a get_email_fs or list_emails_fs that runs while message id is
\* being captured sees the store before the capture or the committed
\* record: get never answers READ_ERROR, and list never skips the file,
\* because the metadata write of id is in flight; what they load is the
\* committed record.
C15_NoInFlightObservation ==
    [][/\ (GetLoadStep /\ InFlight(cl.arg.id)) =>
              cl'.result # ErrorResult("READ_ERROR")
       /\ (ListLoadStep /\ InFlight(Head(cl.tmp.pending))) =>
              Len(cl'.tmp.recs) = Len(cl.tmp.recs) + 1
       /\ (GetLoadStep /\ cl'.pc = "get_extract") =>
              (IsCommitted(cl.arg.id) /\ cl'.tmp = Stored(cl.arg.id))]_vars

\* the first part of a content type that is not sent as an attachment (0 if
\* there is none), and the body the claim expects from it
FirstPart(msg, ct) ==
    LET idx == {i \in 1..Len(walk(msg)) :
                   walk(msg)[i].ctype = ct /\ walk(msg)[i].disp # "attachment"}
    IN  IF idx = {} THEN 0 ELSE CHOOSE i \in idx : \A j \in idx : i <= j
ExpectedBody(msg, ct) ==
    IF FirstPart(msg, ct) = 0 THEN None ELSE BodyOf(walk(msg)[FirstPart(msg, ct)], None)

\* C16: in the record of a multipart message, text is the content of the
\* first text/plain part that is not an attachment (null when there is none
\* or it does not decode) and html that of the first such text/html part;
\* no later part of the same type replaces or supplies the body.
C16_FirstPartIsBody ==
    \A id \in Ids : (IsCommitted(id) /\ is_multipart(RawOf(id))) =>
        /\ Stored(id).text = ExpectedBody(RawOf(id), "text/plain")
        /\ Stored(id).html = ExpectedBody(RawOf(id), "text/html")

\* the parts of a message the claims call attachments, in walk order
ClaimedAttachments(msg) ==
    SelectSeq(walk(msg),
              LAMBDA part : part.disp = "attachment"
                               \/ (part.filename # None /\ part.filename # <<>>))
Metadata(part) ==
    [filename |-> IF part.filename = None THEN <<>> ELSE part.filename,
     content_type |-> part.ctype,
     size_bytes |-> ByteLen(part.payload)]
WithoutText(entry) ==
    [filename |-> entry.filename, content_type |-> entry.content_type,
     size_bytes |-> entry.size_bytes]

ClaimedTypes ==
    {"text/plain", "text/csv", "application/json", "application/yaml",
     "text/yaml", "application/x-yaml"}
ClaimedExts ==
    { <<".", "t", "x", "t">>, <<".", "c", "s", "v">>, <<".", "j", "s", "o", "n">>,
      <<".", "y", "a", "m", "l">>, <<".", "y", "m", "l">> }

\* C19: an entry returned by get_email_fs has a text exactly when the
\* part's content type is one of the allowed textual types or the extension
\* of its filename is one of .txt .csv .json .yaml .yml (in any case); the
\* text is the decoding of the first 524288 bytes of the payload, or of the
\* whole payload if it is shorter, and size_bytes is the full length.
C19_TextIffAllowedAndBounded ==
    [][GetExtractStep =>
          LET atts == ClaimedAttachments(RawOf(cl.arg.id))
              res == cl'.result.attachments
          IN  /\ Len(res) = Len(atts)
              /\ \A k \in 1..Len(res) :
                     /\ ("text" \in DOMAIN res[k]) <=>
                            \/ atts[k].ctype \in ClaimedTypes
                            \/ /\ atts[k].filename # None
                               /\ Lower(suffix(atts[k].filename)) \in ClaimedExts
                     /\ res[k].size_bytes = ByteLen(atts[k].payload)
                     /\ "text" \in DOMAIN res[k] =>
                            /\ TextLen(res[k].text) = Min(ByteLen(atts[k].payload), 524288)
                            /\ res[k].text = DecodeRuns(TakeBytes(atts[k].payload, 524288))]_vars

\* get has returned the message with the 524289-byte text attachment: its
\* text has 524288 characters, the .TXT attachment has a text and the
\* attachment without a name has none
C19_Witness ==
    /\ cl.pc = "ready"
    /\ IsGetCall
    /\ "attachments" \in DOMAIN cl.result
    /\ Len(cl.result.attachments) = 3
    /\ "text" \notin DOMAIN cl.result.attachments[1]
    /\ cl.result.attachments[2].text = << [c |-> "H", n |-> 1] >>
    /\ cl.result.attachments[3].text = << [c |-> "H", n |-> 524288] >>
    /\ cl.result.attachments[3].size_bytes = 524289

\* the messages whose handling has begun and has neither completed nor
\* failed
InProgress ==
    {id \in Ids : HasRaw(id) /\ id \notin failed /\ id \notin Range(committed)}

\* C18: at most one message is being handled at any time, and every write
\* to the store belongs to that message: the handling of a message begins
\* only when no other message is in progress, whatever other sessions
\* have delivered in the meantime.
C18_OneMessageAtATime ==
    [][/\ Cardinality(InProgress') <= 1
       /\ InProgress # {} => (sink.pc # "idle" /\ InProgress = {sink.uid})
       /\ \A id \in Ids :
              (emlFile'[id] # emlFile[id] \/ jsonFile'[id] # jsonFile[id]) =>
                  InProgress \subseteq {id}]_vars

\* the send helper has delivered its message in one session while the sink
\* is in the middle of handling the message of another session
C18_Witness ==
    /\ wire # NoWire
    /\ sink.src = "external"
    /\ sink.pc = "jsonOpen"

\* a metadata artifact is readable when it holds a complete JSON record
Readable(id) == jsonFile[id].kind = "file" /\ "id" \in DOMAIN jsonFile[id].json

\* C20: list_emails_fs skips every metadata artifact that is not readable,
\* be it partly written or corrupt, and never fails because of one: it
\* returns summaries of readable records only.
C20_ListSkipsUnreadable ==
    [][/\ (ListLoadStep /\ jsonFile[Head(cl.tmp.pending)].kind # "file") =>
              cl'.tmp.recs = cl.tmp.recs
       /\ ListFinishStep =>
              LET bad == {i \in 1..Len(cl.tmp.recs) : "id" \notin DOMAIN cl.tmp.recs[i]}
              IN  /\ bad # {} => cl'.result # Raised("AttributeError")
                  /\ bad = {} => Range(ResultIds(cl'.result)) \subseteq LoadedIds]_vars

====
